---- MODULE Spec2Model ----
(***************************************************************************)
(* Model of the NetSurf fetch scheduler (content/fetch.c): fetch_start,    *)
(* fetch_abort, fetch_poll, fetch_curl_data, fetch_curl_header and         *)
(* fetch_process_headers, together with the part of the libcurl multi      *)
(* interface they drive (easy handles, the multi handle, its message       *)
(* queue) and a client that may call fetch_start and fetch_abort at top    *)
(* level and from inside the callbacks it is given.                       *)
(***************************************************************************)
EXTENDS Integers, Sequences, FiniteSets, TLC

(* ---------------------------------------------------------------------- *)
(* Bounds                                                                  *)
(* ---------------------------------------------------------------------- *)
MaxFetch == 3        \* number of fetch_start calls in a behaviour
MaxChunks == 1       \* body chunks the engine delivers per transfer
MaxHeaderFetch == 2  \* number of fetch_start calls in SpecHeaders and SpecReabort
MaxPayloadFetch == 2 \* number of fetch_start calls in SpecPayload
MaxPayloadChunks == 2 \* body chunks per transfer in SpecPayload
MaxBusyFetch == 4
MaxStatusFetch == 2    \* number of fetch_start calls in SpecBusy

\* The struct fetch and easy handles there are to hand out.
MaxIds == IF MaxBusyFetch > MaxFetch THEN MaxBusyFetch ELSE MaxFetch
FetchIds == 1..MaxIds
HandleIds == 1..MaxIds

(* ---------------------------------------------------------------------- *)
(* Values                                                                  *)
(* ---------------------------------------------------------------------- *)
NullPtr == "null"    \* a char * that is 0
NoHost == NullPtr    \* url_host() returned 0

FETCH_TYPE == "FETCH_TYPE"
FETCH_DATA == "FETCH_DATA"
FETCH_FINISHED == "FETCH_FINISHED"
FETCH_ERROR == "FETCH_ERROR"
FETCH_REDIRECT == "FETCH_REDIRECT"
FETCH_AUTH == "FETCH_AUTH"

CURLMSG_DONE == "CURLMSG_DONE"
CURLMSG_NONE == "CURLMSG_NONE"
CURLE_OK == "CURLE_OK"
CURLE_WRITE_ERROR == "CURLE_WRITE_ERROR"
CURLE_COULDNT_CONNECT == "CURLE_COULDNT_CONNECT"

WITH_AUTH == TRUE

\* The requests a client makes: URL scheme, host part and the only_2xx flag.
StartInputs ==
    { [scheme |-> "http", host |-> "a", only_2xx |-> TRUE],
      [scheme |-> "http", host |-> "A", only_2xx |-> FALSE],
      [scheme |-> "http", host |-> "b", only_2xx |-> FALSE],
      [scheme |-> "file", host |-> NoHost, only_2xx |-> TRUE] }

\* A URL with no scheme and no host, such as "not a url": url_host() finds
\* no host in it.
InvalidUrl == [scheme |-> "", host |-> NoHost, only_2xx |-> FALSE]

\* The requests of SpecHeaders: those above and the one with an invalid URL.
HeaderInputs == StartInputs \cup {InvalidUrl}

\* The requests of SpecPayload, all for one host: http://a/ with only_2xx,
\* http://A/ without, and file://a/path.
PayloadInputs ==
    { [scheme |-> "http", host |-> "a", only_2xx |-> TRUE],
      [scheme |-> "http", host |-> "A", only_2xx |-> FALSE],
      [scheme |-> "file", host |-> "a", only_2xx |-> TRUE] }

\* HTTP status codes the engine may report.
StatusCodes == {200, 302, 401, 404}

\* The status codes at the edges of the ranges fetch_process_headers tests.
BoundaryCodes == {199, 200, 299, 300, 399, 400, 401}

\* The status codes of Spec: one that is accepted and one that is refused.
QueueCodes == {200, 401}

\* strcasecmp() and strncasecmp() compare the lower-cased strings.
ToLower(s) ==
    IF s = "A" THEN "a"
    ELSE IF s = "B" THEN "b"
    ELSE IF s = "Location:" THEN "location:"
    ELSE IF s = "Content-Length:" THEN "content-length:"
    ELSE s

strcasecmp_eq(s, t) == ToLower(s) = ToLower(t)

\* strncmp(f->url, "http", 4) == 0
IsHttpFamily(scheme) == scheme \in {"http", "https"}

\* What curl_easy_getinfo(CURLINFO_CONTENT_TYPE) may report: the response's
\* Content-Type, or 0 when it has none.
ContentTypes == {"text/plain", NullPtr}

\* The content type of the responses of Spec.
QueueTypes == {"text/plain"}

\* The k-th body chunk of a response, as curl passes it to fetch_curl_data:
\* the bytes and size * nmemb.
Chunk(k) ==
    IF k = 1 THEN [data |-> "hello", size |-> 5]
    ELSE [data |-> "world!", size |-> 6]

\* The text curl leaves in CURLOPT_ERRORBUFFER when a transfer fails.
CurlErrorText == "couldn't connect to host"

\* messages_get("Not2xx")
Not2xx == "messages_get(Not2xx)"

\* fetch_filetype(url_path)
FileType == "fetch_filetype(url_path)"

\* A response header line as fetch_curl_header is given it: the name with
\* its colon, lead blanks, the value, and trail characters of trailing
\* white space (the line's CR LF included).
LocationLines ==
    { [name |-> "Location:", lead |-> 1, value |-> "http://b/", trail |-> 2],
      [name |-> "location:", lead |-> 2, value |-> "http://b/%41", trail |-> 3],
      [name |-> "Location:", lead |-> 0, value |-> "/", trail |-> 2] }

ContentLengthLines ==
    { [name |-> "Content-Length:", lead |-> 1, value |-> "5", trail |-> 2],
      [name |-> "Content-Length:", lead |-> 1, value |-> "x", trail |-> 2] }

HeaderLines == LocationLines \cup ContentLengthLines

\* The header line of SpecHeaders.
QueueLines ==
    { [name |-> "Location:", lead |-> 1, value |-> "http://b/", trail |-> 2] }

\* strlen()
StrLen(s) ==
    IF s \in {"Location:", "location:", "http://b/"} THEN 9
    ELSE IF s = "Content-Length:" THEN 15
    ELSE IF s = "http://b/%41" THEN 12
    ELSE 1

\* size * nmemb of a header line
LineSize(line) ==
    StrLen(line.name) + line.lead + StrLen(line.value) + line.trail

\* '0' <= data[i] && data[i] <= '9', at the first character of the value
StartsWithDigit(s) == s = "5"

\* atol()
atol(s) == IF s = "5" THEN 5 ELSE 0

\* curl_unescape(): every %XX is replaced by the character it encodes
curl_unescape(s) == IF s = "http://b/%41" THEN "http://b/A" ELSE s

(* ---------------------------------------------------------------------- *)
(* State                                                                   *)
(* ---------------------------------------------------------------------- *)
VARIABLES
    fetch,          \* struct fetch, by identity; st is unused / live / freed
    fetch_list,     \* head of the list of active fetches, or 0
    fetch_active,   \* "fetches in progress, please call fetch_poll()"
    easy,           \* libcurl easy handles: state, CURLOPT_PRIVATE, progress
    msgs,           \* the multi handle's queue of completion messages
    pc,             \* where control is: idle, perform, drain, cb, crashed
    cb,             \* the client callback on the call stack (when pc = "cb")
    events,         \* the messages each fetch's callback was called with, in order
    args,           \* the data and size arguments of those calls, in order
    released        \* how many times fetch_abort freed each struct fetch

vars == <<fetch, fetch_list, fetch_active, easy, msgs, pc, cb, events, args,
          released>>

NoFetch ==
    [st |-> "unused", curl_handle |-> 0, had_headers |-> FALSE,
     in_callback |-> FALSE, aborting |-> FALSE, only_2xx |-> FALSE,
     scheme |-> "", host |-> NoHost, location |-> NullPtr,
     content_length |-> 0,
     queue_prev |-> 0, queue_next |-> 0, prev |-> 0, next |-> 0]

NoEasy == [st |-> "none", priv |-> 0, chunks |-> 0, done |-> FALSE]

NoCb == [f |-> 0, msg |-> "", ret |-> "", h |-> 0]

Init ==
    /\ fetch = [i \in FetchIds |-> NoFetch]
    /\ fetch_list = 0
    /\ fetch_active = FALSE
    /\ easy = [h \in HandleIds |-> NoEasy]
    /\ msgs = <<>>
    /\ pc = "idle"
    /\ cb = NoCb
    /\ events = [i \in FetchIds |-> <<>>]
    /\ args = [i \in FetchIds |-> <<>>]
    /\ released = [i \in FetchIds |-> 0]


(* ---------------------------------------------------------------------- *)
(* The heap and engine state the operations below read and write, passed   *)
(* as one record so that a C function's sequence of assignments becomes a  *)
(* chain of LET steps. failed says that one of the function's assert()     *)
(* calls has failed, which ends the process.                               *)
(* ---------------------------------------------------------------------- *)
Heap ==
    [fetch |-> fetch, fetch_list |-> fetch_list, easy |-> easy,
     msgs |-> msgs, released |-> released, failed |-> FALSE]

Install(S) ==
    /\ fetch' = S.fetch
    /\ fetch_list' = S.fetch_list
    /\ easy' = S.easy
    /\ msgs' = S.msgs
    /\ released' = S.released

\* Control goes to next, unless an assert has failed.
Goto(S, next) == pc' = IF S.failed THEN "crashed" ELSE next

RECURSIVE DropHandle(_, _)
\* the message queue without the messages of easy handle h
DropHandle(q, h) ==
    IF q = <<>> THEN <<>>
    ELSE IF Head(q).h = h THEN DropHandle(Tail(q), h)
    ELSE <<Head(q)>> \o DropHandle(Tail(q), h)

\* curl_multi_remove_handle, and the assert on its result: the transfer
\* stops and its pending message goes; for a handle that is not in the multi
\* handle the result is CURLM_BAD_EASY_HANDLE
curl_multi_remove_handle(S, h) ==
    IF S.easy[h].st = "multi"
    THEN [S EXCEPT !.easy[h].st = "easy", !.msgs = DropHandle(S.msgs, h)]
    ELSE [S EXCEPT !.failed = TRUE]

\* curl_easy_setopt(CURLOPT_PRIVATE / WRITEDATA / WRITEHEADER, f) followed by
\* curl_multi_add_handle: a fresh transfer for f starts on handle h
curl_multi_add_handle(S, h, f) ==
    IF S.easy[h].st \in {"easy", "multi"}
    THEN [S EXCEPT !.easy[h] = [st |-> "multi", priv |-> f, chunks |-> 0,
                                done |-> FALSE]]
    ELSE S

\* curl_easy_cleanup
curl_easy_cleanup(S, h) ==
    [S EXCEPT !.easy[h].st = "cleaned"]

\* fetch_abort, "remove from list of fetches"
ListRemove(S, f) ==
    LET r == S.fetch[f]
        S1 == IF r.prev = 0
              THEN [S EXCEPT !.fetch_list = r.next]
              ELSE [S EXCEPT !.fetch[r.prev].next = r.next]
    IN  IF r.next # 0
        THEN [S1 EXCEPT !.fetch[r.next].prev = r.prev]
        ELSE S1

\* A promotion that forgets "f->queue_next->queue_prev = 0": the promoted
\* fetch transfers while still linked behind the fetch that is gone.
StartQueued_KeepsQueuePrev(S, f) ==
    LET n == S.fetch[f].queue_next
        h == S.fetch[f].curl_handle
        S1 == [S EXCEPT !.fetch[n].prev = 0, !.fetch[n].next = S.fetch_list]
        S2 == IF S1.fetch_list # 0
              THEN [S1 EXCEPT !.fetch[S1.fetch_list].prev = n]
              ELSE S1
        S3 == [S2 EXCEPT !.fetch_list = n, !.fetch[n].curl_handle = h]
    IN  curl_multi_add_handle(S3, h, n)

\* A promotion that gives the queued fetch an easy handle of its own (where
\* one is left to hand out) instead of the handle f had.
StartQueued_FreshHandle(S, f) ==
    LET n == S.fetch[f].queue_next
        none == {k \in HandleIds : S.easy[k].st = "none"}
        h == IF none = {} THEN S.fetch[f].curl_handle
             ELSE CHOOSE k \in none : \A j \in none : k <= j
        S1 == [S EXCEPT !.fetch[n].prev = 0, !.fetch[n].next = S.fetch_list]
        S2 == IF S1.fetch_list # 0
              THEN [S1 EXCEPT !.fetch[S1.fetch_list].prev = n]
              ELSE S1
        S3 == [S2 EXCEPT !.fetch_list = n,
                         !.fetch[n].queue_prev = 0,
                         !.fetch[n].curl_handle = h,
                         !.easy[h].st = "easy"]
    IN  curl_multi_add_handle(S3, h, n)

\* A promotion that sets the handle up for the queued fetch but does not add
\* it to the multi handle again.
StartQueued_NotAdded(S, f) ==
    LET n == S.fetch[f].queue_next
        h == S.fetch[f].curl_handle
        S1 == [S EXCEPT !.fetch[n].prev = 0, !.fetch[n].next = S.fetch_list]
        S2 == IF S1.fetch_list # 0
              THEN [S1 EXCEPT !.fetch[S1.fetch_list].prev = n]
              ELSE S1
    IN  [S2 EXCEPT !.fetch_list = n,
                   !.fetch[n].queue_prev = 0,
                   !.fetch[n].curl_handle = h,
                   !.easy[h].priv = n]

\* fetch_abort, "start a queued fetch for this host, reusing the handle"
StartQueued(S, f) ==
    LET n == S.fetch[f].queue_next
        h == S.fetch[f].curl_handle
        S1 == [S EXCEPT !.fetch[n].prev = 0, !.fetch[n].next = S.fetch_list]
        S2 == IF S1.fetch_list # 0
              THEN [S1 EXCEPT !.fetch[S1.fetch_list].prev = n]
              ELSE S1
        S3 == [S2 EXCEPT !.fetch_list = n,
                         !.fetch[n].queue_prev = 0,
                         !.fetch[n].curl_handle = h]
    IN  curl_multi_add_handle(S3, h, n)

\* An else branch that splices the queue but never calls curl_easy_cleanup.
ReleaseAndSplice_KeepsHandle(S, f) ==
    LET r == S.fetch[f]
        S2 == IF r.queue_prev # 0
              THEN [S EXCEPT !.fetch[r.queue_prev].queue_next = r.queue_next]
              ELSE S
    IN  IF r.queue_next # 0
        THEN [S2 EXCEPT !.fetch[r.queue_next].queue_prev = r.queue_prev]
        ELSE S2

\* fetch_abort, the else branch: release the handle and splice the queue
ReleaseAndSplice(S, f) ==
    LET r == S.fetch[f]
        S1 == IF r.curl_handle # 0 THEN curl_easy_cleanup(S, r.curl_handle) ELSE S
        S2 == IF r.queue_prev # 0
              THEN [S1 EXCEPT !.fetch[r.queue_prev].queue_next = r.queue_next]
              ELSE S1
    IN  IF r.queue_next # 0
        THEN [S2 EXCEPT !.fetch[r.queue_next].queue_prev = r.queue_prev]
        ELSE S2

\* fetch_abort, xfree(f) and the strings it owns
\* What the freed memory goes on holding matters only to code that still has
\* a pointer to it: the links and the handle, which fetch_abort reads.
FreeFetch(S, f) ==
    LET r == S.fetch[f] IN
    [S EXCEPT !.fetch[f] = [NoFetch EXCEPT !.st = "freed",
                                !.curl_handle = r.curl_handle,
                                !.prev = r.prev, !.next = r.next,
                                !.queue_prev = r.queue_prev,
                                !.queue_next = r.queue_next],
              !.released[f] = @ + 1]

\* A cleanup that frees a transferring fetch without starting the fetch
\* queued behind it: the queue is spliced as in the else branch, and the
\* successor is left waiting with no handle.
Teardown_NoPromotion(S, f) ==
    LET S1 == ListRemove(S, f)
        h  == S1.fetch[f].curl_handle
        S2 == IF h # 0 THEN curl_multi_remove_handle(S1, h) ELSE S1
    IN  IF S2.failed THEN S2
        ELSE FreeFetch(ReleaseAndSplice(S2, f), f)

\* A cleanup that leaves the fetch in fetch_list.
Teardown_StaysListed(S, f) ==
    LET h  == S.fetch[f].curl_handle
        S2 == IF h # 0 THEN curl_multi_remove_handle(S, h) ELSE S
        S3 == IF S2.fetch[f].curl_handle # 0 /\ S2.fetch[f].queue_next # 0
              THEN StartQueued(S2, f)
              ELSE ReleaseAndSplice(S2, f)
    IN  IF S2.failed THEN S2 ELSE FreeFetch(S3, f)

\* fetch_abort(f) past the in_callback test
Teardown(S, f) ==
    LET S1 == ListRemove(S, f)
        h  == S1.fetch[f].curl_handle
        S2 == IF h # 0 THEN curl_multi_remove_handle(S1, h) ELSE S1
        S3 == IF S2.fetch[f].curl_handle # 0 /\ S2.fetch[f].queue_next # 0
              THEN StartQueued(S2, f)
              ELSE ReleaseAndSplice(S2, f)
    IN  IF S2.failed THEN S2 ELSE FreeFetch(S3, f)

\* fetch_abort(f)
fetch_abort(S, f) ==
    IF S.fetch[f].in_callback
    THEN [S EXCEPT !.fetch[f].aborting = TRUE]
    ELSE Teardown(S, f)


(* ---------------------------------------------------------------------- *)
(* fetch_start                                                             *)
(* ---------------------------------------------------------------------- *)
RECURSIVE FindHostFetch_NullMatches(_, _, _, _)
\* A host scan without "host_fetch->host == 0 ||": a fetch with no host
\* counts as a fetch of every host.
FindHostFetch_NullMatches(F, cur, host, fuel) ==
    IF cur = 0 THEN 0
    ELSE IF fuel = 0 THEN -1
    ELSE IF F[cur].host = NoHost \/ strcasecmp_eq(F[cur].host, host) THEN cur
    ELSE FindHostFetch_NullMatches(F, F[cur].next, host, fuel - 1)

RECURSIVE FindHostFetch(_, _, _, _)
\* the loop "look for a fetch from the same host": the first fetch of the
\* list, from cur on, with a host equal to host ignoring case; 0 if none;
\* -1 if the list is cyclic and the loop never ends
FindHostFetch(F, cur, host, fuel) ==
    IF cur = 0 THEN 0
    ELSE IF fuel = 0 THEN -1
    ELSE IF F[cur].host # NoHost /\ strcasecmp_eq(F[cur].host, host) THEN cur
    ELSE FindHostFetch(F, F[cur].next, host, fuel - 1)

RECURSIVE QueueTail(_, _, _)
\* the loop "queue at end": the last fetch of the queue cur is in; -1 if the
\* queue is cyclic
QueueTail(F, cur, fuel) ==
    IF F[cur].queue_next = 0 THEN cur
    ELSE IF fuel = 0 THEN -1
    ELSE QueueTail(F, F[cur].queue_next, fuel - 1)

\* xcalloc: the next struct fetch never handed out before
NewFetch == CHOOSE i \in FetchIds : fetch[i].st = "unused" /\
                \A j \in FetchIds : fetch[j].st = "unused" => i <= j

\* curl_easy_init: an easy handle never handed out before
NewHandle(S) == CHOOSE h \in HandleIds : S.easy[h].st = "none" /\
                \A k \in HandleIds : S.easy[k].st = "none" => h <= k

\* the struct fetch as fetch_start constructs it
ConstructFetch(inp) ==
    [NoFetch EXCEPT !.st = "live", !.only_2xx = inp.only_2xx,
                    !.scheme = inp.scheme, !.host = inp.host]

\* fetch_start, "fetch from this host in progress: queue the new fetch"
QueueFetch(S, f, tail) ==
    [S EXCEPT !.fetch[f].curl_handle = 0,
              !.fetch[f].queue_prev = tail,
              !.fetch[tail].queue_next = f]

\* fetch_start, insertion at the head of fetch_list and the new easy handle
ActivateFetch(S, f) ==
    LET h  == NewHandle(S)
        S1 == [S EXCEPT !.fetch[f].next = S.fetch_list]
        S2 == IF S1.fetch_list # 0
              THEN [S1 EXCEPT !.fetch[S1.fetch_list].prev = f]
              ELSE S1
        S3 == [S2 EXCEPT !.fetch_list = f,
                         !.fetch[f].curl_handle = h,
                         !.easy[h].st = "easy"]
    IN  curl_multi_add_handle(S3, h, f)

\* The client code is running: at top level, or inside a callback.
ClientRuns == pc \in {"idle", "cb"}

\* fetch_start(url, ..., only_2xx), called at top level
Start(inp) ==
    /\ pc = "idle"
    /\ \E i \in FetchIds : fetch[i].st = "unused"
    /\ LET f  == NewFetch
           S0 == [Heap EXCEPT !.fetch[f] = ConstructFetch(inp)]
           hf == IF inp.host # NoHost
                 THEN FindHostFetch(S0.fetch, S0.fetch_list, inp.host, MaxIds)
                 ELSE 0
           tl == IF hf > 0 THEN QueueTail(S0.fetch, hf, MaxIds) ELSE 0
       IN  IF hf = -1 \/ tl = -1
           THEN \* the loop never ends
                /\ pc' = "crashed"
                /\ Install(S0)
                /\ UNCHANGED <<fetch_active, cb, events, args>>
           ELSE IF hf # 0
           THEN /\ Install(QueueFetch(S0, f, tl))
                /\ UNCHANGED <<fetch_active, pc, cb, events, args>>
           ELSE /\ Install(ActivateFetch(S0, f))
                /\ fetch_active' = TRUE
                /\ UNCHANGED <<pc, cb, events, args>>

(* ---------------------------------------------------------------------- *)
(* fetch_abort called by the client on a fetch it holds                    *)
(* ---------------------------------------------------------------------- *)
\* A fetch_abort that tells the client, calling the callback of the fetch
\* with FETCH_ERROR before it returns.
Abort_Notifies(f) ==
    /\ ClientRuns
    /\ fetch[f].st = "live"
    /\ LET S == fetch_abort(Heap, f) IN Install(S) /\ Goto(S, pc)
    /\ events' = [events EXCEPT ![f] = Append(@, FETCH_ERROR)]
    /\ args' = [args EXCEPT ![f] = Append(@, [data |-> NullPtr, size |-> 0])]
    /\ UNCHANGED <<fetch_active, cb>>

Abort(f) ==
    /\ ClientRuns
    /\ fetch[f].st = "live"
    /\ LET S == fetch_abort(Heap, f) IN Install(S) /\ Goto(S, pc)
    /\ UNCHANGED <<fetch_active, cb, events, args>>


(* ---------------------------------------------------------------------- *)
(* fetch_process_headers                                                   *)
(* ---------------------------------------------------------------------- *)
\* A fetch_process_headers that tests only_2xx before the 401.
HeadersMsg_PolicyFirst(r, code) ==
    IF 300 <= code /\ code < 400 /\ r.location # NullPtr THEN FETCH_REDIRECT
    ELSE IF r.only_2xx /\ IsHttpFamily(r.scheme) /\ (code < 200 \/ 299 < code)
         THEN FETCH_ERROR
    ELSE IF WITH_AUTH /\ code = 401 THEN FETCH_AUTH
    ELSE FETCH_TYPE

\* A fetch_process_headers without "handle HTTP redirects".
HeadersMsg_NoRedirect(r, code) ==
    IF WITH_AUTH /\ code = 401 THEN FETCH_AUTH
    ELSE IF r.only_2xx /\ IsHttpFamily(r.scheme) /\ (code < 200 \/ 299 < code)
         THEN FETCH_ERROR
    ELSE FETCH_TYPE

\* The message fetch_process_headers sends for HTTP status code, given the
\* fetch's captured Location, its only_2xx flag and its URL scheme.
HeadersMsg(r, code) ==
    IF 300 <= code /\ code < 400 /\ r.location # NullPtr THEN FETCH_REDIRECT
    ELSE IF WITH_AUTH /\ code = 401 THEN FETCH_AUTH
    ELSE IF r.only_2xx /\ IsHttpFamily(r.scheme) /\ (code < 200 \/ 299 < code)
         THEN FETCH_ERROR
    ELSE FETCH_TYPE

\* "find MIME type from headers or filetype for local files": type is what
\* curl reports as the content type.
MimeType(r, type) ==
    IF type # NullPtr THEN type
    ELSE IF r.scheme = "file" THEN FileType
    ELSE "text/html"

\* A fetch_process_headers that passes 0 as the size of FETCH_TYPE.
HeadersArgs_NoLength(r, code, type) ==
    LET msg == HeadersMsg(r, code) IN
    IF msg = FETCH_REDIRECT THEN [data |-> curl_unescape(r.location), size |-> 0]
    ELSE IF msg = FETCH_AUTH THEN [data |-> NullPtr, size |-> 0]
    ELSE IF msg = FETCH_ERROR THEN [data |-> Not2xx, size |-> 0]
    ELSE [data |-> MimeType(r, type), size |-> 0]

\* The data and size fetch_process_headers passes with that message.
HeadersArgs(r, code, type) ==
    LET msg == HeadersMsg(r, code) IN
    IF msg = FETCH_REDIRECT THEN [data |-> curl_unescape(r.location), size |-> 0]
    ELSE IF msg = FETCH_AUTH THEN [data |-> NullPtr, size |-> 0]
    ELSE IF msg = FETCH_ERROR THEN [data |-> Not2xx, size |-> 0]
    ELSE [data |-> MimeType(r, type), size |-> r.content_length]

\* A fetch_process_headers without "f->had_headers = true".
HeadersFetch_NotMarked(r, code) ==
    [r EXCEPT !.location = IF HeadersMsg(r, code) = FETCH_REDIRECT
                           THEN curl_unescape(@) ELSE @]

\* The struct fetch as fetch_process_headers leaves it when it calls the
\* callback: had_headers is set, and a Location that is sent is unescaped.
HeadersFetch(r, code) ==
    [r EXCEPT !.had_headers = TRUE,
              !.location = IF HeadersMsg(r, code) = FETCH_REDIRECT
                           THEN curl_unescape(@) ELSE @]

\* A fetch_process_headers that always returns false: the transfer is carried
\* on after REDIRECT, AUTH and ERROR as it is after TYPE.
HeadersAbort_Never(msg, aborting) == FALSE

\* What fetch_process_headers returns once the callback has returned: true
\* after REDIRECT, AUTH and ERROR, and f->aborting after TYPE.
HeadersAbort(msg, aborting) ==
    IF msg = FETCH_TYPE THEN aborting ELSE TRUE

\* callback(FETCH_FINISHED, p, 0, 0)
NoArgs == [data |-> NullPtr, size |-> 0]

\* A read of a field of f: the field, or any value once f has been freed.
ReadAborting(f) ==
    IF fetch[f].st = "freed" THEN BOOLEAN ELSE {fetch[f].aborting}

\* Calling callback(msg, f->p, a.data, a.size): the event is delivered and
\* the client runs until it returns; ret names where control goes on return
\* and h the easy handle whose write callback is running, if any.
Call(f, msg, a, ret, h) ==
    /\ events' = [events EXCEPT ![f] = Append(@, msg)]
    /\ args' = [args EXCEPT ![f] = Append(@, a)]
    /\ cb' = [f |-> f, msg |-> msg, ret |-> ret, h |-> h]
    /\ pc' = "cb"

(* ---------------------------------------------------------------------- *)
(* fetch_poll, and the transfer engine running inside curl_multi_perform   *)
(* ---------------------------------------------------------------------- *)
\* fetch_poll is entered: curl_multi_perform starts
PollBegin ==
    /\ pc = "idle"
    /\ pc' = "perform"
    /\ UNCHANGED <<fetch, fetch_list, fetch_active, easy, msgs, cb, events, args, released>>

Transferring(h) == easy[h].st = "multi" /\ ~easy[h].done

\* fetch_curl_header on the struct fetch r: a Location line longer than 12
\* characters gives the location, its value without the blanks before it
\* and the white space after it; a Content-Length line longer than 15
\* characters whose value starts with a digit gives the content length.
fetch_curl_header(r, line) ==
    IF 12 < LineSize(line) /\ ToLower(line.name) = "location:"
    THEN [r EXCEPT !.location = line.value]
    ELSE IF 15 < LineSize(line) /\ ToLower(line.name) = "content-length:"
    THEN IF StartsWithDigit(line.value)
         THEN [r EXCEPT !.content_length = atol(line.value)]
         ELSE r
    ELSE r

\* curl passes a header line of the response on h to fetch_curl_header,
\* before any of the body; a response has one Location and one
\* Content-Length line at most.
CurlHeader(h, line) ==
    /\ pc = "perform"
    /\ Transferring(h)
    /\ easy[h].chunks = 0
    /\ LET f == easy[h].priv IN
       /\ line \in LocationLines => fetch[f].location = NullPtr
       /\ line \in ContentLengthLines => fetch[f].content_length = 0
       /\ fetch' = [fetch EXCEPT ![f] = fetch_curl_header(@, line)]
    /\ UNCHANGED <<fetch_list, fetch_active, easy, msgs, pc, cb, events, args, released>>

\* A fetch_curl_data that sends FETCH_DATA without looking at the headers
\* first.
CurlData_NoHeaders(h, code, type, limit) ==
    /\ pc = "perform"
    /\ Transferring(h)
    /\ easy[h].chunks < limit
    /\ easy' = [easy EXCEPT ![h].chunks = @ + 1]
    /\ fetch' = [fetch EXCEPT ![easy[h].priv].in_callback = TRUE]
    /\ Call(easy[h].priv, FETCH_DATA, Chunk(easy[h].chunks + 1), "data", h)
    /\ UNCHANGED <<fetch_list, fetch_active, msgs, released>>

\* fetch_curl_data up to its first callback: a body chunk arrives on h, of a
\* response whose status is code and whose content type is type; limit is
\* the number of chunks a body has at most
CurlData(h, code, type, limit) ==
    /\ pc = "perform"
    /\ Transferring(h)
    /\ easy[h].chunks < limit
    /\ LET f == easy[h].priv IN
       /\ easy' = [easy EXCEPT ![h].chunks = @ + 1]
       /\ IF ~fetch[f].had_headers
          THEN /\ fetch' = [fetch EXCEPT
                              ![f] = [HeadersFetch(@, code) EXCEPT !.in_callback = TRUE]]
               /\ Call(f, HeadersMsg(fetch[f], code),
                       HeadersArgs(fetch[f], code, type), "headers_data", h)
          ELSE /\ fetch' = [fetch EXCEPT ![f].in_callback = TRUE]
               /\ Call(f, FETCH_DATA, Chunk(easy[h].chunks + 1), "data", h)
    /\ UNCHANGED <<fetch_list, fetch_active, msgs, released>>

\* An engine that ends a transfer whose write callback returned 0 with the
\* result of a network failure.
WriteRefused_AsFailure(E, q, h) ==
    IF E[h].st = "multi" /\ ~E[h].done
    THEN [easy |-> [E EXCEPT ![h].done = TRUE],
          msgs |-> Append(q, [msg |-> CURLMSG_DONE, h |-> h,
                           result |-> CURLE_COULDNT_CONNECT])]
    ELSE [easy |-> E, msgs |-> q]

\* An engine told that the whole chunk was consumed although the fetch was
\* refused: fetch_curl_data returning size * nmemb on every path.
WriteRefused_Ignored(E, q, h) == [easy |-> E, msgs |-> q]

\* The engine's answer to a write callback that returned 0: the transfer
\* ends with CURLE_WRITE_ERROR.
WriteRefused(E, q, h) ==
    IF E[h].st = "multi" /\ ~E[h].done
    THEN [easy |-> [E EXCEPT ![h].done = TRUE],
          msgs |-> Append(q, [msg |-> CURLMSG_DONE, h |-> h,
                           result |-> CURLE_WRITE_ERROR])]
    ELSE [easy |-> E, msgs |-> q]

\* fetch_curl_data after fetch_process_headers' callback has returned
ReturnHeadersData ==
    /\ pc = "cb" /\ cb.ret = "headers_data"
    /\ LET f == cb.f
           h == cb.h
       IN  IF HeadersAbort(cb.msg, fetch[f].aborting)
           THEN LET W == WriteRefused(easy, msgs, h) IN
                /\ fetch' = [fetch EXCEPT ![f].in_callback = FALSE]
                /\ easy' = W.easy
                /\ msgs' = W.msgs
                /\ pc' = "perform"
                /\ cb' = NoCb
                /\ UNCHANGED <<events, args>>
           ELSE /\ Call(f, FETCH_DATA, Chunk(easy[h].chunks), "data", h)
                /\ UNCHANGED <<fetch, easy, msgs>>
    /\ UNCHANGED <<fetch_list, fetch_active, released>>

\* fetch_curl_data after the FETCH_DATA callback has returned
ReturnData ==
    /\ pc = "cb" /\ cb.ret = "data"
    /\ fetch' = [fetch EXCEPT ![cb.f].in_callback = FALSE]
    /\ pc' = "perform"
    /\ cb' = NoCb
    /\ UNCHANGED <<fetch_list, fetch_active, easy, msgs, events, args, released>>

\* The engine finishes the transfer on h, with success or a network error.
CurlDone(h, result) ==
    /\ pc = "perform"
    /\ Transferring(h)
    /\ easy' = [easy EXCEPT ![h].done = TRUE]
    /\ msgs' = Append(msgs, [msg |-> CURLMSG_DONE, h |-> h, result |-> result])
    /\ UNCHANGED <<fetch, fetch_list, fetch_active, pc, cb, events, args, released>>

\* The engine queues, for the transfer on h, a message of a kind other than
\* CURLMSG_DONE.
CurlOther(h) ==
    /\ pc = "perform"
    /\ Transferring(h)
    /\ \A k \in 1..Len(msgs) : msgs[k].h # h
    /\ msgs' = Append(msgs, [msg |-> CURLMSG_NONE, h |-> h, result |-> CURLE_OK])
    /\ UNCHANGED <<fetch, fetch_list, fetch_active, easy, pc, cb, events, args, released>>

\* curl_multi_perform returns
PerformEnd ==
    /\ pc = "perform"
    /\ pc' = "drain"
    /\ UNCHANGED <<fetch, fetch_list, fetch_active, easy, msgs, cb, events, args, released>>


(* ---------------------------------------------------------------------- *)
(* fetch_poll, "process curl results"                                      *)
(* ---------------------------------------------------------------------- *)
\* What fetch_abort(f) does at "clean up fetch". When the client has already
\* freed f from inside the callback poll made, f is a dangling pointer: the
\* process dies, or fetch_abort runs on what the freed struct still holds.
\* What the process does once the function that used freed memory has
\* returned is not defined by the source and is not followed: control ends
\* at "undefined".
CleanUpOutcomes(f) ==
    IF fetch[f].st = "freed" THEN {"crash", "stale"} ELSE {"run"}

\* Where control goes after a step whose cleanup has had outcome oc.
After(oc, S, next) ==
    IF oc = "crash" \/ S.failed THEN "crashed"
    ELSE IF oc = "stale" THEN "undefined"
    ELSE next

\* A fetch_poll with no switch on curl_msg->msg: every message is handled
\* as CURLMSG_DONE.
IsDone_Any(m) == TRUE

\* switch (curl_msg->msg), case CURLMSG_DONE
IsDone(m) == m.msg = CURLMSG_DONE

\* A fetch_poll that reports CURLE_WRITE_ERROR like any other failure.
ReportsError_Always(result) == TRUE

\* "CURLE_WRITE_ERROR occurs when fetch_curl_data returns 0, which we use to
\* abort intentionally": a failed transfer is reported unless that is its
\* result.
ReportsError(result) == result # CURLE_WRITE_ERROR

\* fetch_poll takes one CURLMSG_DONE message, up to its first callback, or
\* through "clean up fetch" when it makes none before it; code and type are
\* the status and the content type of the response
PollMsg(code, type) ==
    /\ pc = "drain"
    /\ msgs # <<>>
    /\ IsDone(Head(msgs))
    /\ LET m == Head(msgs)
           f == easy[m.h].priv
           S == [Heap EXCEPT !.msgs = Tail(msgs)]
       IN  IF m.result = CURLE_OK /\ ~fetch[f].had_headers
           THEN /\ Install([S EXCEPT !.fetch[f] = HeadersFetch(@, code)])
                /\ Call(f, HeadersMsg(fetch[f], code),
                        HeadersArgs(fetch[f], code, type), "headers_poll", 0)
           ELSE IF m.result = CURLE_OK
           THEN LET T == fetch_abort(S, f) IN
                /\ Install(T)
                /\ IF T.failed
                   THEN pc' = "crashed" /\ UNCHANGED <<cb, events, args>>
                   ELSE Call(f, FETCH_FINISHED, NoArgs, "finished", 0)
           ELSE IF ReportsError(m.result)
           THEN /\ Install(S)
                /\ Call(f, FETCH_ERROR, [data |-> CurlErrorText, size |-> 0],
                        "error", 0)
           ELSE LET T == fetch_abort(S, f) IN
                /\ Install(T)
                /\ Goto(T, pc)
                /\ UNCHANGED <<cb, events, args>>
    /\ UNCHANGED fetch_active

\* fetch_poll reads a message that is not CURLMSG_DONE: "default: assert(0)"
\* ends the process, curl_msg still pointing at the message.
PollOther ==
    /\ pc = "drain"
    /\ msgs # <<>>
    /\ ~IsDone(Head(msgs))
    /\ pc' = "crashed"
    /\ UNCHANGED <<fetch, fetch_list, fetch_active, easy, msgs, cb, events, args, released>>

\* fetch_poll after fetch_process_headers' callback has returned: finished
\* is set, the fetch is cleaned up, FETCH_FINISHED is sent
ReturnHeadersPoll ==
    /\ pc = "cb" /\ cb.ret = "headers_poll"
    /\ LET f == cb.f IN
       \E aborting \in ReadAborting(f) : \E oc \in CleanUpOutcomes(f) :
          LET finished == ~HeadersAbort(cb.msg, aborting)
              T == IF oc = "crash" THEN Heap ELSE fetch_abort(Heap, f)
          IN  /\ Install(T)
              /\ IF finished /\ After(oc, T, "cb") # "crashed"
                 THEN /\ events' = [events EXCEPT ![f] = Append(@, FETCH_FINISHED)]
                      /\ args' = [args EXCEPT ![f] = Append(@, NoArgs)]
                      /\ cb' = [f |-> f, msg |-> FETCH_FINISHED,
                                ret |-> "finished", h |-> 0]
                      /\ pc' = After(oc, T, "cb")
                 ELSE /\ pc' = After(oc, T, "drain")
                      /\ cb' = NoCb
                      /\ UNCHANGED <<events, args>>
    /\ UNCHANGED fetch_active

\* fetch_poll after the FETCH_ERROR callback has returned
ReturnError ==
    /\ pc = "cb" /\ cb.ret = "error"
    /\ \E oc \in CleanUpOutcomes(cb.f) :
          LET T == IF oc = "crash" THEN Heap ELSE fetch_abort(Heap, cb.f) IN
          /\ Install(T)
          /\ pc' = After(oc, T, "drain")
    /\ cb' = NoCb
    /\ UNCHANGED <<fetch_active, events, args>>

\* fetch_poll after the FETCH_FINISHED callback has returned
ReturnFinished ==
    /\ pc = "cb" /\ cb.ret = "finished"
    /\ pc' = "drain"
    /\ cb' = NoCb
    /\ UNCHANGED <<fetch, fetch_list, fetch_active, easy, msgs, events, args, released>>

\* A fetch_poll that clears fetch_active whenever it returns.
PollEnd_AlwaysClears ==
    /\ pc = "drain"
    /\ msgs = <<>>
    /\ fetch_active' = FALSE
    /\ pc' = "idle"
    /\ UNCHANGED <<fetch, fetch_list, easy, msgs, cb, events, args, released>>

\* fetch_poll's end: no message is left
PollEnd ==
    /\ pc = "drain"
    /\ msgs = <<>>
    /\ fetch_active' = IF fetch_list = 0 THEN FALSE ELSE fetch_active
    /\ pc' = "idle"
    /\ UNCHANGED <<fetch, fetch_list, easy, msgs, cb, events, args, released>>

(* ---------------------------------------------------------------------- *)
(* The scheduler with its client and its engine                            *)
(* ---------------------------------------------------------------------- *)
\* The fetch_start calls made so far.
Started == Cardinality({i \in FetchIds : fetch[i].st # "unused"})

\* The client, the engine and the scheduler, with the responses' status
\* codes drawn from codes, their content types from types, and their bodies
\* of limit chunks at most.
Steps(codes, types, limit) ==
    \/ \E f \in FetchIds : Abort(f)
    \/ PollBegin
    \/ \E h \in HandleIds : \E code \in codes : \E type \in types :
          CurlData(h, code, type, limit)
    \/ \E h \in HandleIds : \E result \in {CURLE_OK, CURLE_COULDNT_CONNECT} :
          CurlDone(h, result)
    \/ PerformEnd
    \/ ReturnHeadersData
    \/ ReturnData
    \/ \E code \in codes : \E type \in types : PollMsg(code, type)
    \/ ReturnHeadersPoll
    \/ ReturnError
    \/ ReturnFinished
    \/ PollEnd

\* Up to MaxFetch fetches, whose responses carry no Location header and are
\* accepted (200) or refused (401).
Next ==
    \/ \E inp \in StartInputs : Started < MaxFetch /\ Start(inp)
    \/ Steps(QueueCodes, QueueTypes, MaxChunks)

Spec == Init /\ [][Next]_vars

\* Up to MaxHeaderFetch fetches, with every status code, with a Location
\* header and with invalid URLs.
NextHeaders ==
    \/ \E inp \in HeaderInputs : Started < MaxHeaderFetch /\ Start(inp)
    \/ \E h \in HandleIds : \E line \in QueueLines : CurlHeader(h, line)
    \/ Steps(StatusCodes, QueueTypes, MaxChunks)

SpecHeaders == Init /\ [][NextHeaders]_vars

\* Up to MaxPayloadFetch fetches, with every status code, content type and
\* header line, and bodies of up to MaxPayloadChunks chunks.
NextPayload ==
    \/ \E inp \in PayloadInputs : Started < MaxPayloadFetch /\ Start(inp)
    \/ \E h \in HandleIds : \E line \in HeaderLines : CurlHeader(h, line)
    \/ Steps(StatusCodes, ContentTypes, MaxPayloadChunks)

SpecPayload == Init /\ [][NextPayload]_vars

\* Up to MaxStatusFetch fetches, with the status codes at the edges of the
\* ranges, with and without a Location header.
NextStatus ==
    \/ \E inp \in PayloadInputs : Started < MaxStatusFetch /\ Start(inp)
    \/ \E h \in HandleIds : \E line \in QueueLines : CurlHeader(h, line)
    \/ Steps(BoundaryCodes, ContentTypes, MaxChunks)

SpecStatus == Init /\ [][NextStatus]_vars


(* ---------------------------------------------------------------------- *)
(* A client that calls fetch_abort again on a fetch already cleaned up     *)
(* ---------------------------------------------------------------------- *)
\* fetch_abort(f) at top level, f having been freed: f is a dangling
\* pointer, and the process dies or fetch_abort runs on what the freed
\* struct still holds.
Reabort(f) ==
    /\ pc = "idle"
    /\ fetch[f].st = "freed"
    /\ \E oc \in CleanUpOutcomes(f) :
          LET T == IF oc = "crash" THEN Heap ELSE fetch_abort(Heap, f) IN
          /\ Install(T)
          /\ pc' = After(oc, T, pc)
    /\ UNCHANGED <<fetch_active, cb, events, args>>

NextReabort ==
    \/ \E inp \in StartInputs : Started < MaxHeaderFetch /\ Start(inp)
    \/ \E f \in FetchIds : Reabort(f)
    \/ Steps(QueueCodes, QueueTypes, MaxChunks)

SpecReabort == Init /\ [][NextReabort]_vars

(* ---------------------------------------------------------------------- *)
(* The faults of the environment                                           *)
(* ---------------------------------------------------------------------- *)
\* fetch_start's insertion at the head of fetch_list, followed by a
\* curl_easy_init that returns 0: "assert(fetch->curl_handle != 0)" fails.
ActivateNoHandle(S, f) ==
    LET S1 == [S EXCEPT !.fetch[f].next = S.fetch_list]
        S2 == IF S1.fetch_list # 0
              THEN [S1 EXCEPT !.fetch[S1.fetch_list].prev = f]
              ELSE S1
    IN  [S2 EXCEPT !.fetch_list = f, !.fetch[f].curl_handle = 0,
                   !.failed = TRUE]

\* fetch_start(url, ..., only_2xx) for a host with no fetch in fetch_list,
\* when curl_easy_init has no memory for a handle.
StartExhausted(inp) ==
    /\ pc = "idle"
    /\ \E i \in FetchIds : fetch[i].st = "unused"
    /\ LET f  == NewFetch
           S0 == [Heap EXCEPT !.fetch[f] = ConstructFetch(inp)]
           hf == IF inp.host # NoHost
                 THEN FindHostFetch(S0.fetch, S0.fetch_list, inp.host, MaxIds)
                 ELSE 0
       IN  /\ hf = 0
           /\ LET S == ActivateNoHandle(S0, f) IN Install(S) /\ Goto(S, pc)
           /\ fetch_active' = TRUE
           /\ UNCHANGED <<cb, events, args>>

\* Up to MaxHeaderFetch fetches, with the faults of the environment: a
\* curl_easy_init that is out of memory, and a message of unknown kind.
NextFaults ==
    \/ \E inp \in StartInputs : Started < MaxHeaderFetch /\ Start(inp)
    \/ \E inp \in StartInputs : Started < MaxHeaderFetch /\ StartExhausted(inp)
    \/ \E h \in HandleIds : CurlOther(h)
    \/ PollOther
    \/ Steps(QueueCodes, QueueTypes, MaxChunks)

SpecFaults == Init /\ [][NextFaults]_vars

(* ---------------------------------------------------------------------- *)
(* A client that calls fetch_poll as long as fetch_active is true          *)
(* ---------------------------------------------------------------------- *)
\* "fetches in progress, please call fetch_poll()": the client's main loop
\* calls fetch_poll only while fetch_active is true.
PollWhileActive == fetch_active /\ PollBegin

\* fetch_poll, once entered, runs to its end: curl_multi_perform returns,
\* callbacks return, messages are handled.
PollRuns ==
    \/ PerformEnd
    \/ ReturnHeadersData
    \/ ReturnData
    \/ \E code \in QueueCodes : \E type \in QueueTypes : PollMsg(code, type)
    \/ ReturnHeadersPoll
    \/ ReturnError
    \/ ReturnFinished
    \/ PollEnd

\* The engine ends the transfer on h.
Completes(h) == \E result \in {CURLE_OK, CURLE_COULDNT_CONNECT} : CurlDone(h, result)

\* Up to MaxHeaderFetch fetches, polled while fetch_active is true.
NextLive ==
    \/ \E inp \in StartInputs : Started < MaxHeaderFetch /\ Start(inp)
    \/ \E f \in FetchIds : Abort(f)
    \/ PollWhileActive
    \/ \E h \in HandleIds : \E code \in QueueCodes : \E type \in QueueTypes :
          CurlData(h, code, type, MaxChunks)
    \/ \E h \in HandleIds : Completes(h)
    \/ PollRuns

\* The client goes on polling while fetch_active is true, fetch_poll runs to
\* its end, and a transfer that the engine is given again and again the
\* chance to end does end.
SpecLive ==
    /\ Init /\ [][NextLive]_vars
    /\ WF_vars(PollWhileActive)
    /\ WF_vars(PollRuns)
    /\ \A h \in HandleIds : SF_vars(Completes(h))

(* ---------------------------------------------------------------------- *)
(* A client whose fetches are all for one host                             *)
(* ---------------------------------------------------------------------- *)
BusyHostInput == [scheme |-> "http", host |-> "a", only_2xx |-> TRUE]

\* Up to MaxBusyFetch fetches, all for host "a".
NextBusy ==
    \/ Started < MaxBusyFetch /\ Start(BusyHostInput)
    \/ Steps(QueueCodes, QueueTypes, MaxChunks)

SpecBusy == Init /\ [][NextBusy]_vars

(* ---------------------------------------------------------------------- *)
(* Vocabulary of the properties                                            *)
(* ---------------------------------------------------------------------- *)
Live(i) == fetch[i].st = "live"

\* No operation of the scheduler is executing.
BetweenOperations == pc = "idle"

\* Two live fetches of one (non-null) host.
SameHost(i, j) ==
    /\ Live(i) /\ Live(j)
    /\ fetch[i].host # NoHost /\ fetch[j].host # NoHost
    /\ strcasecmp_eq(fetch[i].host, fetch[j].host)

\* The fetch a link of i ("next" or "queue_next") points to, in heap F.
Link(F, i, link) == IF link = "next" THEN F[i].next ELSE F[i].queue_next

\* The fetches reached from start (start included, 0 excluded) along link.
Closure(F, start, link) ==
    LET R[n \in 0..MaxIds] ==
            IF n = 0 THEN {start}
            ELSE R[n - 1] \cup {Link(F, x, link) : x \in R[n - 1] \ {0}}
    IN  R[MaxIds] \ {0}

\* j is reached from i by one or more steps along link.
Follows(i, j, link) == j \in Closure(fetch, Link(fetch, i, link), link)

\* i is in the list of active fetches whose head is head, in heap F.
InList(F, head, i) == i \in Closure(F, head, "next")

\* i is in the list of active fetches.
InFetchList(i) == InList(fetch, fetch_list, i)

TerminalMsgs == {FETCH_REDIRECT, FETCH_AUTH, FETCH_ERROR, FETCH_FINISHED}

\* The terminal notifications among the messages sent to i.
Terminals(i) == {k \in 1..Len(events[i]) : events[i][k] \in TerminalMsgs}

\* i's callback has been called with msg.
Received(i, msg) == \E k \in 1..Len(events[i]) : events[i][k] = msg

\* This step calls i's callback.
DeliversAny(i) == events'[i] # events[i]

\* This step calls i's callback with msg.
Delivers(i, msg) == events'[i] = Append(events[i], msg)

(* ---------------------------------------------------------------------- *)
(* C1 - C10                                                                *)
(* ---------------------------------------------------------------------- *)

\* C1 (I1): between operations, every live fetch has a null queue_prev if
\* and only if it owns a curl handle.
C1_QueuePrevIffHandle ==
    BetweenOperations =>
        \A i \in FetchIds :
            Live(i) => (fetch[i].queue_prev = 0 <=> fetch[i].curl_handle # 0)

\* C1 witness: between operations, a queued fetch waits behind a transferring
\* one after an abort has already promoted a successor on that host.
C1_Witness ==
    /\ BetweenOperations
    /\ \E i, j, k \in FetchIds :
          /\ fetch[i].st = "freed" /\ Live(j) /\ Live(k)
          /\ fetch[j].curl_handle # 0 /\ fetch[j].queue_next = k
          /\ fetch[k].queue_prev = j /\ fetch[k].curl_handle = 0
          /\ fetch[i].queue_next = j

\* C2 (I2): between operations, no two live fetches of one host both own a
\* curl handle.
C2_OneTransferPerHost ==
    BetweenOperations =>
        \A i, j \in FetchIds :
            (i # j /\ SameHost(i, j)) =>
                ~(fetch[i].curl_handle # 0 /\ fetch[j].curl_handle # 0)


\* C3: between operations, the live fetches of one host form one queue:
\* queue_next and queue_prev are inverse along it, any two of them are joined
\* by it, and its head is the only one of them that transfers.
C3_OneChainPerHost ==
    BetweenOperations =>
        /\ \A i \in FetchIds :
              Live(i) =>
                 /\ fetch[i].queue_next # 0 =>
                       /\ Live(fetch[i].queue_next)
                       /\ fetch[fetch[i].queue_next].queue_prev = i
                 /\ fetch[i].queue_prev # 0 =>
                       /\ Live(fetch[i].queue_prev)
                       /\ fetch[fetch[i].queue_prev].queue_next = i
                 /\ (fetch[i].queue_prev = 0 <=> fetch[i].curl_handle # 0)
        /\ \A i, j \in FetchIds :
              (i # j /\ SameHost(i, j)) =>
                 \/ Follows(i, j, "queue_next")
                 \/ Follows(j, i, "queue_next")

\* C4: while a callback of a fetch other than FETCH_FINISHED is on the call
\* stack the fetch has not been freed, and no fetch is ever freed twice.
C4_NotFreedInOwnCallback ==
    /\ (pc = "cb" /\ cb.msg # FETCH_FINISHED) => Live(cb.f)
    /\ \A i \in FetchIds : released[i] <= 1

\* C5: once the client has called fetch_abort(R) from R's own FETCH_DATA
\* callback, R's callback is never called again.
C5_NoEventAfterAbortInData ==
    [][\A i \in FetchIds :
          (fetch[i].aborting /\ Received(i, FETCH_DATA)) => events'[i] = events[i]]_vars

\* C6: fetch_abort on a fetch already cleaned up changes nothing: nothing is
\* freed again, and the list of fetches, the queues, the handles and
\* fetch_active stay as they are.
C6_ReabortIsNoOp ==
    [][\A i \in FetchIds :
          Reabort(i) =>
             UNCHANGED <<fetch, fetch_list, fetch_active, easy, msgs, released, pc>>]_vars


C8_AllBeforeSuccessorStarts ==
    [][\A a \in FetchIds :
          (DeliversAny(a) /\ fetch'[a].queue_next # 0)
          => fetch'[fetch'[a].queue_next].curl_handle = 0]_vars

\* C8, as amended: every message of A other than FETCH_FINISHED is sent while
\* A is live and the fetch queued behind it has no curl handle; A's
\* FETCH_FINISHED is sent after that fetch has been given A's handle, and
\* before any message of that fetch.
C8_AllButFinishedBeforeSuccessor ==
    [][\A a \in FetchIds :
          LET b == fetch'[a].queue_next IN
          /\ (DeliversAny(a) /\ ~Delivers(a, FETCH_FINISHED)) =>
                /\ fetch'[a].st = "live"
                /\ b # 0 => fetch'[b].curl_handle = 0
          /\ (Delivers(a, FETCH_FINISHED) /\ b # 0 /\ fetch'[b].st = "live") =>
                /\ fetch'[b].curl_handle # 0
                /\ events'[b] = <<>>]_vars

\* C8 witness: A's FETCH_FINISHED callback runs, A having been sent
\* FETCH_TYPE and FETCH_DATA, while the fetch queued behind it is registered
\* with the engine on the handle A had.
C8_Witness ==
    /\ pc = "cb" /\ cb.msg = FETCH_FINISHED
    /\ events[cb.f] = <<FETCH_TYPE, FETCH_DATA, FETCH_FINISHED>>
    /\ fetch[cb.f].queue_next # 0
    /\ LET b == fetch[cb.f].queue_next IN
          /\ Live(b)
          /\ fetch[b].curl_handle = fetch[cb.f].curl_handle
          /\ easy[fetch[b].curl_handle].st = "multi"

\* C9: when fetch_poll sends FETCH_FINISHED the fetch has been cleaned up: it
\* is freed and not in fetch_list, and the fetch that was queued behind it,
\* if the client has not aborted it, owns a curl handle that is registered
\* with the engine for it.
C9_FinishedAfterCleanup ==
    [][\A i \in FetchIds :
          Delivers(i, FETCH_FINISHED) =>
             /\ fetch'[i].st = "freed"
             /\ ~InList(fetch', fetch_list', i)
             /\ LET b == fetch'[i].queue_next IN
                (b # 0 /\ fetch'[b].st = "live") =>
                   /\ fetch'[b].curl_handle # 0
                   /\ easy'[fetch'[b].curl_handle].st = "multi"
                   /\ easy'[fetch'[b].curl_handle].priv = b
                   /\ InList(fetch', fetch_list', b)]_vars

\* C9 witness: the FETCH_FINISHED callback of a fetch runs while the fetch
\* that was queued behind it is in fetch_list with a registered handle.
C9_Witness ==
    /\ pc = "cb" /\ cb.msg = FETCH_FINISHED
    /\ fetch[cb.f].st = "freed"
    /\ fetch[cb.f].queue_next # 0
    /\ Live(fetch[cb.f].queue_next)
    /\ InFetchList(fetch[cb.f].queue_next)
    /\ easy[fetch[fetch[cb.f].queue_next].curl_handle].st = "multi"

\* C10: a message is sent to a live fetch only when every other live fetch of
\* its host has been sent nothing yet or has had its terminal notification.
C10_NoInterleavingOnHost ==
    [][\A g \in FetchIds :
          (DeliversAny(g) /\ Live(g)) =>
             \A f \in FetchIds :
                (f # g /\ SameHost(f, g)) =>
                   (events[f] = <<>> \/ Terminals(f) # {})]_vars

(* ---------------------------------------------------------------------- *)
(* C11 - C20                                                               *)
(* ---------------------------------------------------------------------- *)

\* This step is fetch_poll's "clean up fetch" of the live fetch a.
PollCleansUp(a) ==
    /\ Live(a) /\ fetch'[a].st = "freed"
    /\ pc = "drain" \/ (pc = "cb" /\ cb' # cb)

\* C11: when fetch_poll cleans up a fetch A that has a fetch B queued behind
\* it, whether A's transfer succeeded, failed or was refused, then at the
\* end of that step B is live, is the head of its queue, owns the handle A
\* owned and is registered with the engine on it, and no new easy handle has
\* been created.
C11_PromotionReusesHandle ==
    [][\A a \in FetchIds :
          (PollCleansUp(a) /\ fetch[a].queue_next # 0) =>
             LET b == fetch[a].queue_next
                 h == fetch[a].curl_handle
             IN  /\ h # 0
                 /\ fetch'[b].st = "live"
                 /\ fetch'[b].curl_handle = h
                 /\ fetch'[b].queue_prev = 0
                 /\ easy'[h].st = "multi" /\ easy'[h].priv = b
                 /\ \A k \in HandleIds :
                       easy[k].st = "none" => easy'[k].st = "none"]_vars

\* C11 witness: a transfer with no body has completed, fetch_poll has
\* cleaned its fetch up and is calling its FETCH_FINISHED callback, and the
\* fetch that was queued behind it runs on the handle it had.
C11_Witness ==
    /\ pc = "cb" /\ cb.msg = FETCH_FINISHED
    /\ events[cb.f] = <<FETCH_TYPE, FETCH_FINISHED>>
    /\ LET b == fetch[cb.f].queue_next IN
          /\ b # 0
          /\ fetch[b].st = "live"
          /\ fetch[b].curl_handle = fetch[cb.f].curl_handle
          /\ easy[fetch[b].curl_handle].priv = b

\* C12: fetch_start with a URL that has no scheme and no host creates
\* nothing: no struct fetch, no entry in fetch_list or in a queue, no easy
\* handle, and fetch_active is as it was.
C12_InvalidUrlCreatesNothing ==
    [][Start(InvalidUrl) =>
          UNCHANGED <<fetch, fetch_list, fetch_active, easy, msgs>>]_vars

\* A live fetch has the host of inp, compared ignoring case.
HostHasLiveFetch(inp) ==
    /\ inp.host # NoHost
    /\ \E j \in FetchIds :
          /\ Live(j) /\ fetch[j].host # NoHost
          /\ strcasecmp_eq(fetch[j].host, inp.host)

\* C13: fetch_start for a host that has a live fetch appends the new fetch
\* at the tail of that host's queue, gives it no curl handle, touches no easy
\* handle, calls no callback, and leaves fetch_list and every other fetch as
\* they were (but for the old tail's queue_next).
C13_StartOnBusyHostQueues ==
    [][\A inp \in StartInputs :
          (Start(inp) /\ HostHasLiveFetch(inp)) =>
             LET f == NewFetch
                 t == fetch'[f].queue_prev
             IN  /\ fetch'[f].st = "live"
                 /\ fetch'[f].curl_handle = 0
                 /\ fetch'[f].queue_next = 0
                 /\ t # 0
                 /\ fetch[t].st = "live" /\ fetch[t].queue_next = 0
                 /\ strcasecmp_eq(fetch[t].host, inp.host)
                 /\ \A j \in FetchIds \ {f} :
                       fetch'[j] = IF j = t
                                   THEN [fetch[j] EXCEPT !.queue_next = f]
                                   ELSE fetch[j]
                 /\ UNCHANGED <<fetch_list, easy, msgs, events, args>>]_vars

\* C14: fetch_active is true when fetch_start returns, whether it has
\* queued the new fetch or started its transfer.
C14_ActiveAfterStart ==
    [][(\E inp \in StartInputs : Start(inp)) /\ pc' = "idle"
          => fetch_active']_vars

\* The messages sent to i are FETCH_TYPE, then n times FETCH_DATA, then
\* FETCH_FINISHED, for some n >= least.
TypeDataFinished(i, least) ==
    LET e == events[i] IN
    /\ Len(e) >= 2 + least
    /\ e[1] = FETCH_TYPE
    /\ e[Len(e)] = FETCH_FINISHED
    /\ \A k \in 2..(Len(e) - 1) : e[k] = FETCH_DATA

ResolvesAs(f, code, type) ==
    /\ fetch[f].st = "live" /\ ~fetch[f].had_headers
    /\ \/ \E h \in HandleIds :
             easy[h].priv = f /\ CurlData(h, code, type, MaxPayloadChunks)
       \/ /\ pc = "drain" /\ msgs # <<>>
          /\ easy[Head(msgs).h].priv = f
          /\ Head(msgs).result = CURLE_OK
          /\ PollMsg(code, type)

Resolves(f, code) == \E type \in ContentTypes : ResolvesAs(f, code, type)

\* C16: a fetch whose status is resolved as 3xx with a Location header
\* captured is sent FETCH_REDIRECT at that moment, on both paths, with the
\* unescaped Location as data, and a fetch that has been sent FETCH_REDIRECT
\* has been sent, and is ever sent, nothing else.
C16_RedirectOnly ==
    /\ [](\A i \in FetchIds :
            Received(i, FETCH_REDIRECT) => events[i] = <<FETCH_REDIRECT>>)
    /\ [][\A f \in FetchIds : \A code \in StatusCodes :
            (Resolves(f, code) /\ 300 <= code /\ code < 400
                /\ fetch[f].location # NullPtr)
            => /\ events'[f] = <<FETCH_REDIRECT>>
               /\ args'[f] = <<[data |-> curl_unescape(fetch[f].location),
                                size |-> 0]>>]_vars

\* C16 witness: two fetches have been cleaned up after FETCH_REDIRECT and
\* nothing else, one redirected to http://b/ on its first body chunk and one
\* to http://b/A at completion with no body.
C16_Witness ==
    \E i, j \in FetchIds :
        /\ fetch[i].st = "freed" /\ fetch[j].st = "freed"
        /\ events[i] = <<FETCH_REDIRECT>> /\ events[j] = <<FETCH_REDIRECT>>
        /\ args[i] = <<[data |-> "http://b/", size |-> 0]>>
        /\ args[j] = <<[data |-> "http://b/A", size |-> 0]>>
        /\ fetch[i].curl_handle # 0 /\ fetch[j].curl_handle # 0
        /\ easy[fetch[i].curl_handle].chunks = 1
        /\ easy[fetch[j].curl_handle].chunks = 0

\* C17: a fetch with only_2xx set and an http URL whose status is resolved
\* as neither 2xx, nor a redirect with a Location, nor 401, is sent
\* FETCH_ERROR with the Not2xx message at that moment, on both paths; and a
\* fetch that has been sent that message has been sent, and is ever sent,
\* nothing else.
C17_Only2xxErrorOnly ==
    /\ [](\A i \in FetchIds :
            (\E k \in 1..Len(args[i]) : args[i][k].data = Not2xx)
            => /\ events[i] = <<FETCH_ERROR>>
               /\ args[i] = <<[data |-> Not2xx, size |-> 0]>>)
    /\ [][\A f \in FetchIds : \A code \in StatusCodes :
            (/\ Resolves(f, code)
             /\ fetch[f].only_2xx /\ IsHttpFamily(fetch[f].scheme)
             /\ code < 200 \/ 299 < code
             /\ ~(300 <= code /\ code < 400 /\ fetch[f].location # NullPtr)
             /\ code # 401)
            => /\ events'[f] = <<FETCH_ERROR>>
               /\ args'[f] = <<[data |-> Not2xx, size |-> 0]>>]_vars

\* C17 witness: two fetches have been cleaned up after the Not2xx
\* FETCH_ERROR and nothing else, one refused on its first body chunk, whose
\* CURLE_WRITE_ERROR completion fetch_poll has drained, and one at
\* completion with no body.
C17_Witness ==
    \E i, j \in FetchIds :
        /\ fetch[i].st = "freed" /\ fetch[j].st = "freed"
        /\ args[i] = <<[data |-> Not2xx, size |-> 0]>>
        /\ args[j] = <<[data |-> Not2xx, size |-> 0]>>
        /\ events[i] = <<FETCH_ERROR>> /\ events[j] = <<FETCH_ERROR>>
        /\ fetch[i].curl_handle # 0 /\ fetch[j].curl_handle # 0
        /\ easy[fetch[i].curl_handle].chunks = 1
        /\ easy[fetch[j].curl_handle].chunks = 0

\* This step passes a header line of f's response to fetch_curl_header.
HeaderArrives(f, line) ==
    \E h \in HandleIds : easy[h].priv = f /\ CurlHeader(h, line)

\* C18: a fetch that has been sent FETCH_FINISHED was sent FETCH_TYPE, then
\* one FETCH_DATA for each body chunk, in order, with the chunk's bytes and
\* size, then FETCH_FINISHED with no data. When a response with status 200
\* and content type T is accepted, FETCH_TYPE carries T and the content
\* length of the fetch; that content length is the number of a
\* Content-Length line seen before, and 0 when none was.
C18_TypeDataFinishedPayload ==
    /\ [](\A i \in FetchIds :
            Received(i, FETCH_FINISHED) =>
               /\ TypeDataFinished(i, 0)
               /\ \A k \in 2..(Len(events[i]) - 1) : args[i][k] = Chunk(k - 1)
               /\ args[i][Len(events[i])] = NoArgs)
    /\ [][\A f \in FetchIds :
            /\ \A type \in ContentTypes \ {NullPtr} :
                  ResolvesAs(f, 200, type) =>
                     /\ events'[f] = <<FETCH_TYPE>>
                     /\ args'[f] = <<[data |-> type,
                                      size |-> fetch[f].content_length]>>
            /\ \A line \in ContentLengthLines :
                  (HeaderArrives(f, line) /\ StartsWithDigit(line.value)) =>
                     fetch'[f].content_length = atol(line.value)
            /\ (fetch[f].st = "live" /\ fetch'[f].st = "live"
                   /\ ~\E line \in ContentLengthLines : HeaderArrives(f, line))
                  => fetch'[f].content_length = fetch[f].content_length
            /\ (fetch[f].st = "unused" /\ fetch'[f].st = "live")
                  => fetch'[f].content_length = 0]_vars

\* C18 witness: a fetch with status 200, content type text/plain and
\* Content-Length: 5 has been sent TYPE("text/plain", 5), DATA("hello", 5),
\* DATA("world!", 6) and FINISHED, and another, with no Content-Length,
\* TYPE("text/plain", 0) first.
C18_Witness ==
    \E i, j \in FetchIds :
        /\ events[i] = <<FETCH_TYPE, FETCH_DATA, FETCH_DATA, FETCH_FINISHED>>
        /\ args[i] = <<[data |-> "text/plain", size |-> 5],
                       [data |-> "hello", size |-> 5],
                       [data |-> "world!", size |-> 6],
                       [data |-> NullPtr, size |-> 0]>>
        /\ Received(j, FETCH_FINISHED)
        /\ args[j][1] = [data |-> "text/plain", size |-> 0]

\* This step is fetch_poll taking the CURLMSG_DONE message of f's transfer,
\* whose result is result.
PollDrains(f, result) ==
    /\ pc = "drain" /\ msgs # <<>>
    /\ Head(msgs).result = result
    /\ easy[Head(msgs).h].priv = f
    /\ \E code \in StatusCodes : \E type \in ContentTypes : PollMsg(code, type)

\* C19: when fetch_poll takes a completion whose result is a failure other
\* than CURLE_WRITE_ERROR, it sends the fetch FETCH_ERROR with curl's error
\* text, which is the only FETCH_ERROR and the last message the fetch is
\* ever sent; when the result is CURLE_WRITE_ERROR it cleans the fetch up
\* and calls no callback.
C19_ErrorUnlessWriteError ==
    /\ [](\A i \in FetchIds : \A k \in 1..Len(events[i]) :
            events[i][k] = FETCH_ERROR => k = Len(events[i]))
    /\ [][\A f \in FetchIds :
            /\ PollDrains(f, CURLE_COULDNT_CONNECT) =>
                  /\ events'[f] = Append(events[f], FETCH_ERROR)
                  /\ args'[f] = Append(args[f], [data |-> CurlErrorText,
                                                  size |-> 0])
            /\ PollDrains(f, CURLE_WRITE_ERROR) =>
                  /\ events' = events /\ args' = args
                  /\ fetch'[f].st = "freed"]_vars

\* C19 witness: fetch_poll has cleaned up one fetch whose transfer failed
\* after FETCH_TYPE and FETCH_DATA, and one whose first body chunk was
\* refused after FETCH_AUTH.
C19_Witness ==
    \E i, j \in FetchIds :
        /\ fetch[i].st = "freed" /\ fetch[j].st = "freed"
        /\ events[i] = <<FETCH_TYPE, FETCH_DATA, FETCH_ERROR>>
        /\ args[i][3] = [data |-> CurlErrorText, size |-> 0]
        /\ events[j] = <<FETCH_AUTH>>
        /\ fetch[j].curl_handle # 0
        /\ easy[fetch[j].curl_handle].chunks = 1

\* C20: fetch_abort(B) called while the callback of another live fetch A is
\* running, A being in fetch_list with its handle and B either transferring
\* for another host or queued behind A, frees B and leaves A live, in
\* fetch_list, with its handle and registered with the engine.
C20_AbortOtherInCallback ==
    [][\A a, b \in FetchIds :
          (/\ pc = "cb" /\ cb.f = a /\ a # b
           /\ Live(a) /\ InFetchList(a) /\ fetch[a].curl_handle # 0
           /\ \/ fetch[b].curl_handle # 0 /\ ~SameHost(a, b)
              \/ Follows(a, b, "queue_next")
           /\ Abort(b))
          => /\ fetch'[b].st = "freed"
             /\ fetch'[a].st = "live"
             /\ InList(fetch', fetch_list', a)
             /\ fetch'[a].curl_handle = fetch[a].curl_handle
             /\ easy'[fetch[a].curl_handle] = easy[fetch[a].curl_handle]]_vars

(* ---------------------------------------------------------------------- *)
(* C21 - C30                                                               *)
(* ---------------------------------------------------------------------- *)

\* C21: a fetch_abort called by the client calls no callback: the step
\* delivers no event to any fetch, neither to the aborted one nor to the
\* queued fetch it starts.
C21_AbortDeliversNothing ==
    [][\A f \in FetchIds : Abort(f) => events' = events /\ args' = args]_vars

\* C21 witness: a fetch was aborted while transferring, before any event, and
\* the fetch queued behind it has its handle and has had no event either.
C21_Witness ==
    \E a, b \in FetchIds :
        /\ fetch[a].st = "freed" /\ events[a] = <<>>
        /\ Live(b) /\ events[b] = <<>>
        /\ fetch[b].curl_handle # 0
        /\ fetch[b].curl_handle = fetch[a].curl_handle
        /\ easy[fetch[b].curl_handle].priv = b

\* The messages that end a fetch without its body being accepted.
Rejections == {FETCH_ERROR, FETCH_REDIRECT, FETCH_AUTH}

\* This step is part of the failure of fetch a: its callback is called with
\* FETCH_ERROR, FETCH_REDIRECT or FETCH_AUTH, or the scheduler goes on after
\* that callback has returned, or fetch_poll cleans a up on the
\* CURLE_WRITE_ERROR of its refused transfer.
FailureStep(a) ==
    \/ \E msg \in Rejections : Delivers(a, msg)
    \/ /\ pc = "cb" /\ cb.f = a /\ cb.msg \in Rejections
       /\ ReturnHeadersData \/ ReturnHeadersPoll \/ ReturnError
    \/ PollDrains(a, CURLE_WRITE_ERROR)

\* C22: a step of the failure of fetch a leaves every other live fetch o
\* live, with its event sequence, with its place in fetch_list if it had
\* one, and, unless o is the fetch queued directly behind a, with its handle,
\* the state of that handle and its queue links.
C22_FailureIsolation ==
    [][\A a, o \in FetchIds :
          (a # o /\ Live(o) /\ FailureStep(a)) =>
             /\ fetch'[o].st = "live"
             /\ events'[o] = events[o] /\ args'[o] = args[o]
             /\ InFetchList(o) => InList(fetch', fetch_list', o)
             /\ fetch[a].queue_next # o =>
                   /\ fetch'[o].curl_handle = fetch[o].curl_handle
                   /\ fetch'[o].queue_prev = fetch[o].queue_prev
                   /\ fetch'[o].queue_next = fetch[o].queue_next
                   /\ fetch[o].curl_handle # 0 =>
                         easy'[fetch[o].curl_handle] = easy[fetch[o].curl_handle]]_vars

\* fetch_start hands out the structs in order: i was started before j.
StartedBefore(i, j) == i < j

\* This step gives the queued fetch j a curl handle.
Activates(j) ==
    /\ Live(j) /\ fetch[j].curl_handle = 0
    /\ fetch'[j].st = "live" /\ fetch'[j].curl_handle # 0

\* C23: when a queued fetch is given a curl handle, no fetch started before
\* it for the same host is still live; and a fetch_abort of a queued fetch
\* leaves the other fetches in the order they had in their queues.
C23_FifoActivation ==
    /\ [][\A i, j \in FetchIds :
            (Activates(j) /\ StartedBefore(i, j) /\ fetch'[i].host # NoHost
               /\ strcasecmp_eq(fetch'[i].host, fetch[j].host))
            => fetch'[i].st # "live"]_vars
    /\ [][\A b \in FetchIds :
            (Abort(b) /\ fetch[b].curl_handle = 0) =>
               \A i, j \in FetchIds \ {b} :
                  (Live(i) /\ Live(j)) =>
                     (Follows(i, j, "queue_next")
                        <=> j \in Closure(fetch', Link(fetch', i, "queue_next"),
                                          "queue_next"))]_vars

\* C24: a fetch_start that cannot get an easy handle returns to its caller
\* (the process goes on), and leaves fetch_list, fetch_active and every
\* live fetch, its queue links included, as they were.
C24_ExhaustionFailsOnlyStart ==
    [][\A inp \in StartInputs :
          StartExhausted(inp) =>
             /\ pc' = pc
             /\ fetch_list' = fetch_list
             /\ fetch_active' = fetch_active
             /\ \A i \in FetchIds : Live(i) => fetch'[i] = fetch[i]]_vars

\* C25: when the message fetch_poll has read is not CURLMSG_DONE, the step
\* that follows ends the process, and delivers no event and changes no
\* fetch, list or queue.
C25_UnknownMessageTerminates ==
    [][(pc = "drain" /\ msgs # <<>> /\ Head(msgs).msg # CURLMSG_DONE) =>
          /\ pc' = "crashed"
          /\ events' = events /\ args' = args
          /\ fetch' = fetch /\ fetch_list' = fetch_list]_vars

\* C25 witness: the process has ended on a message of unknown kind, with a
\* fetch transferring and another queued behind it, and no fetch ever freed.
C25_Witness ==
    /\ pc = "crashed"
    /\ msgs # <<>> /\ Head(msgs).msg = CURLMSG_NONE
    /\ \A i \in FetchIds : fetch[i].st # "freed"
    /\ \E i \in FetchIds : Live(i) /\ fetch[i].queue_next # 0

\* C26: a fetch_abort of a queued fetch b (one with no curl handle) frees b,
\* joins its queue neighbours to each other, and leaves fetch_list, the
\* prev and next links and the handle of every other fetch as they were.
C26_AbortQueuedRemovesOnlyIt ==
    [][\A b \in FetchIds :
          (Abort(b) /\ fetch[b].curl_handle = 0) =>
             /\ fetch'[b].st = "freed"
             /\ fetch_list' = fetch_list
             /\ fetch[b].queue_prev # 0 =>
                   fetch'[fetch[b].queue_prev].queue_next = fetch[b].queue_next
             /\ fetch[b].queue_next # 0 =>
                   fetch'[fetch[b].queue_next].queue_prev = fetch[b].queue_prev
             /\ \A i \in FetchIds \ {b} :
                   /\ fetch'[i].prev = fetch[i].prev
                   /\ fetch'[i].next = fetch[i].next
                   /\ fetch'[i].curl_handle = fetch[i].curl_handle
             /\ easy' = easy]_vars

\* C27: a fetch_abort of a transferring fetch a with a fetch n queued behind
\* it, called while a's callback is not running, frees a and takes it out
\* of fetch_list, puts n at the head of fetch_list with no queue_prev and
\* with a's handle, adds that handle to the multi handle for n, and leaves
\* the rest of the queue behind n.
C27_AbortActivePromotes ==
    [][\A a \in FetchIds :
          (/\ Abort(a) /\ ~(pc = "cb" /\ cb.f = a)
           /\ fetch[a].curl_handle # 0 /\ fetch[a].queue_next # 0)
          => LET n == fetch[a].queue_next
                 h == fetch[a].curl_handle
             IN  /\ fetch'[a].st = "freed"
                 /\ ~InList(fetch', fetch_list', a)
                 /\ fetch_list' = n
                 /\ fetch'[n].st = "live"
                 /\ fetch'[n].prev = 0 /\ fetch'[n].queue_prev = 0
                 /\ fetch'[n].curl_handle = h
                 /\ easy'[h] = [st |-> "multi", priv |-> n, chunks |-> 0,
                                done |-> FALSE]
                 /\ fetch'[n].queue_next = fetch[n].queue_next]_vars

\* C27 witness: a fetch was aborted before any event, and the fetch that was
\* queued behind it is at the head of fetch_list with its handle, a third
\* fetch still queued behind that one.
C27_Witness ==
    \E a, n \in FetchIds :
        /\ fetch[a].st = "freed" /\ events[a] = <<>>
        /\ fetch[a].queue_next = n /\ fetch_list = n
        /\ Live(n) /\ fetch[n].queue_prev = 0
        /\ fetch[n].curl_handle # 0
        /\ fetch[n].curl_handle = fetch[a].curl_handle
        /\ easy[fetch[n].curl_handle].st = "multi"
        /\ easy[fetch[n].curl_handle].priv = n
        /\ fetch[n].queue_next # 0 /\ Live(fetch[n].queue_next)

\* The calls of i's callback that fetch_process_headers made: every
\* FETCH_TYPE, FETCH_REDIRECT and FETCH_AUTH, and the FETCH_ERROR whose text
\* is that of the only_2xx refusal. Each execution makes exactly one.
HeadersRuns(i) ==
    {k \in 1..Len(events[i]) :
        \/ events[i][k] \in {FETCH_TYPE, FETCH_REDIRECT, FETCH_AUTH}
        \/ events[i][k] = FETCH_ERROR /\ args[i][k].data = Not2xx}

\* C28: fetch_process_headers has run at most once for every fetch, and it
\* has run before any FETCH_DATA or FETCH_FINISHED of that fetch.
C28_HeadersProcessedOnce ==
    \A i \in FetchIds :
        /\ Cardinality(HeadersRuns(i)) <= 1
        /\ \A k \in 1..Len(events[i]) :
              events[i][k] \in {FETCH_DATA, FETCH_FINISHED} =>
                 \E j \in HeadersRuns(i) : j < k

\* C28 witness: a fetch whose body came in two chunks has completed, with
\* one FETCH_TYPE before both; and a fetch with no body has completed, its
\* FETCH_TYPE sent by fetch_poll.
C28_Witness ==
    \E i, j \in FetchIds :
        /\ events[i] = <<FETCH_TYPE, FETCH_DATA, FETCH_DATA, FETCH_FINISHED>>
        /\ events[j] = <<FETCH_TYPE, FETCH_FINISHED>>
        /\ pc = "idle"

\* C29: the message fetch_process_headers sends for status code is
\* FETCH_REDIRECT exactly when 300 <= code < 400 and a Location is held;
\* otherwise FETCH_AUTH exactly when code is 401; otherwise FETCH_ERROR
\* exactly when only_2xx is set, the URL is http or https and code is not
\* within 200..299; and FETCH_TYPE exactly when none of these.
C29_StatusDecision ==
    [][\A f \in FetchIds : \A code \in BoundaryCodes \cup StatusCodes :
          Resolves(f, code) =>
             LET r == fetch[f]
                 redirect == code \in 300..399 /\ r.location # NullPtr
                 auth     == ~redirect /\ WITH_AUTH /\ code = 401
                 refused  == /\ ~redirect /\ ~auth
                             /\ r.only_2xx /\ r.scheme \in {"http", "https"}
                             /\ code \notin 200..299
             IN  /\ Delivers(f, FETCH_REDIRECT) <=> redirect
                 /\ Delivers(f, FETCH_AUTH) <=> auth
                 /\ Delivers(f, FETCH_ERROR) <=> refused
                 /\ Delivers(f, FETCH_TYPE) <=> ~redirect /\ ~auth /\ ~refused]_vars

\* C29 witness: a fetch with only_2xx set and an http URL is in its
\* FETCH_REDIRECT callback, and another such fetch has been sent FETCH_AUTH
\* and nothing else.
C29_Witness ==
    \E i, j \in FetchIds :
        /\ pc = "cb" /\ cb.f = i /\ cb.msg = FETCH_REDIRECT
        /\ Live(i) /\ fetch[i].only_2xx /\ fetch[i].scheme = "http"
        /\ events[j] = <<FETCH_AUTH>>

\* fetch_abort(f) has been called from inside f's FETCH_TYPE callback: f
\* has had FETCH_TYPE and nothing else, and is marked aborting (the call
\* came while fetch_curl_data was running) or has been freed.
AbortedInType(f) ==
    /\ events[f] = <<FETCH_TYPE>>
    /\ fetch[f].aborting \/ fetch[f].st = "freed"

\* C30: once fetch_abort(f) has been called from inside f's FETCH_TYPE
\* callback, no step calls f's callback again, no step frees f a second
\* time, and the return from the callback does not end the process or use
\* freed memory.
C30_AbortInTypeRejects ==
    [][\A f \in FetchIds :
          AbortedInType(f) =>
             /\ events'[f] = events[f]
             /\ released'[f] <= 1
             /\ (pc = "cb" /\ cb.f = f) => pc' \notin {"crashed", "undefined"}]_vars

(* ---------------------------------------------------------------------- *)
(* C31 - C39                                                               *)
(* ---------------------------------------------------------------------- *)

\* The FETCH_DATA calls made to i's callback.
DataCalls(i) == {k \in 1..Len(events[i]) : events[i][k] = FETCH_DATA}

\* fetch_curl_data has returned 0 for the transfer on h: the engine has
\* ended it with CURLE_WRITE_ERROR.
Refused(h) ==
    \E k \in 1..Len(msgs) : msgs[k].h = h /\ msgs[k].result = CURLE_WRITE_ERROR

\* C31: when fetch_process_headers has run on a chunk, fetch_curl_data
\* returns 0 and sends no FETCH_DATA exactly when the fetch was refused
\* (FETCH_REDIRECT, FETCH_AUTH, FETCH_ERROR, or fetch_abort during
\* FETCH_TYPE), and otherwise sends FETCH_DATA with the chunk; after a
\* FETCH_DATA it reports the whole chunk, so the transfer goes on; and while
\* curl_multi_perform runs between chunks, a fetch has had one FETCH_DATA
\* per chunk, in order and unchanged, the refused chunk excepted.
C31_ZeroConsumedIffRejected ==
    /\ [][\A f \in FetchIds :
            (pc = "cb" /\ cb.f = f /\ cb.ret = "headers_data" /\ ReturnHeadersData)
            => LET h == cb.h
                   rejected == cb.msg \in Rejections \/ fetch[f].aborting
               IN  IF rejected
                   THEN /\ events' = events /\ args' = args
                        /\ easy'[h].done
                        /\ msgs' = Append(msgs, [msg |-> CURLMSG_DONE, h |-> h,
                                                 result |-> CURLE_WRITE_ERROR])
                   ELSE /\ Delivers(f, FETCH_DATA)
                        /\ args'[f] = Append(args[f], Chunk(easy[h].chunks))
                        /\ easy' = easy /\ msgs' = msgs]_vars
    /\ [][(pc = "cb" /\ cb.ret = "data" /\ ReturnData)
            => easy' = easy /\ msgs' = msgs /\ events' = events]_vars
    /\ [](\A f \in FetchIds :
            (/\ pc = "perform" /\ Live(f) /\ fetch[f].curl_handle # 0
             /\ easy[fetch[f].curl_handle].priv = f)
            => LET h == fetch[f].curl_handle
                   d == DataCalls(f)
               IN  /\ Cardinality(d) =
                         IF Refused(h) THEN easy[h].chunks - 1 ELSE easy[h].chunks
                   /\ \A k \in d :
                         args[f][k] = Chunk(Cardinality({j \in d : j <= k})))

\* C31 witness: a fetch has completed after two FETCH_DATA with the two
\* chunks, and the fetch that took over its handle has been refused with
\* FETCH_AUTH on its first chunk, which was not sent to it.
C31_Witness ==
    \E f, g \in FetchIds :
        /\ events[g] = <<FETCH_TYPE, FETCH_DATA, FETCH_DATA, FETCH_FINISHED>>
        /\ args[g][2] = Chunk(1) /\ args[g][3] = Chunk(2)
        /\ pc = "perform" /\ Live(f) /\ fetch[f].curl_handle # 0
        /\ events[f] = <<FETCH_AUTH>>
        /\ easy[fetch[f].curl_handle].chunks = 1
        /\ Refused(fetch[f].curl_handle)

\* fetch_poll returns.
PollReturns == pc = "drain" /\ msgs = <<>> /\ PollEnd

\* C32: fetch_active goes from true to false only in the step in which
\* fetch_poll returns, and only when fetch_list is empty then; a fetch_poll
\* that returns with fetch_list not empty leaves fetch_active as it was;
\* and no fetch_abort changes fetch_active.
C32_FlagClearedOnlyByPoll ==
    /\ [][(fetch_active /\ ~fetch_active') => (PollReturns /\ fetch_list = 0)]_vars
    /\ [][(PollReturns /\ fetch_list # 0) => fetch_active' = fetch_active]_vars
    /\ [][\A f \in FetchIds : Abort(f) => fetch_active' = fetch_active]_vars

\* C32 witness: the last fetch was aborted by the client before any event,
\* fetch_list is empty and fetch_active still true; no fetch_poll has ended
\* since.
C32_Witness ==
    /\ pc = "idle" /\ fetch_list = 0 /\ fetch_active
    /\ \E f \in FetchIds : fetch[f].st = "freed" /\ events[f] = <<>>
    /\ \A f \in FetchIds : fetch[f].st # "live"

\* The fetch CURLINFO_PRIVATE gives for easy handle h.
Owner(h) == easy[h].priv

\* C33: every easy handle in the multi handle has as its CURLOPT_PRIVATE a
\* live fetch whose curl_handle it is, and no other live fetch has that
\* handle; so the message fetch_poll is about to handle is resolved to the
\* live fetch that holds the completed handle.
C33_HandleMapsToOwner ==
    /\ \A h \in HandleIds :
          easy[h].st = "multi" =>
             /\ Owner(h) \in FetchIds
             /\ Live(Owner(h))
             /\ fetch[Owner(h)].curl_handle = h
             /\ \A g \in FetchIds :
                   (Live(g) /\ fetch[g].curl_handle = h) => g = Owner(h)
    /\ (pc = "drain" /\ msgs # <<>>) =>
          /\ easy[Head(msgs).h].st = "multi"
          /\ Live(Owner(Head(msgs).h))

\* This step is fetch_poll's "clean up fetch" for the completion of f: made
\* when the message is read, for a transfer that succeeded after its headers
\* were handled or that ended with CURLE_WRITE_ERROR, and otherwise on the
\* return of the callback fetch_poll made.
CleanUpStep(f) ==
    \/ /\ pc = "drain" /\ msgs # <<>>
       /\ IsDone(Head(msgs)) /\ Owner(Head(msgs).h) = f
       /\ \/ Head(msgs).result = CURLE_WRITE_ERROR
          \/ Head(msgs).result = CURLE_OK /\ fetch[f].had_headers
       /\ \E code \in StatusCodes : \E type \in ContentTypes : PollMsg(code, type)
    \/ /\ pc = "cb" /\ cb.f = f
       /\ ReturnHeadersPoll \/ ReturnError

\* C34: fetch_poll's "clean up fetch" of a completed fetch leaves it freed,
\* freed once, and out of fetch_list, and fetch_poll goes on.
C34_CompletionReleasesOnce ==
    [][\A f \in FetchIds :
          CleanUpStep(f) =>
             /\ fetch'[f].st = "freed"
             /\ released'[f] = 1
             /\ ~InList(fetch', fetch_list', f)
             /\ pc' \notin {"crashed", "undefined"}]_vars

\* C35: between operations, fetch_list is a well-formed doubly-linked list
\* (the head has no prev, prev undoes next, no fetch follows itself) and
\* the fetches in it are exactly the live fetches that own a curl handle.
C35_RegistryWellFormed ==
    BetweenOperations =>
        /\ fetch_list # 0 => fetch[fetch_list].prev = 0
        /\ \A i \in FetchIds :
              InFetchList(i) =>
                 /\ fetch[i].next # 0 => fetch[fetch[i].next].prev = i
                 /\ ~Follows(i, i, "next")
        /\ \A i \in FetchIds :
              InFetchList(i) <=> (Live(i) /\ fetch[i].curl_handle # 0)

\* C36: between operations, fetch_active is true whenever a live fetch
\* exists, transferring or queued.
C36_FlagWhileLive ==
    (BetweenOperations /\ \E i \in FetchIds : Live(i)) => fetch_active

\* C37: under SpecLive, every live fetch eventually owns a curl handle or
\* has been aborted, and eventually has had a terminal notification or has
\* been aborted.
C37_EveryFetchEnds ==
    \A i \in FetchIds :
        /\ Live(i) ~> (fetch[i].curl_handle # 0 \/ fetch[i].st = "freed")
        /\ Live(i) ~> (Terminals(i) # {} \/ fetch[i].st = "freed")

\* The easy handles in the multi handle.
Registered == {h \in HandleIds : easy[h].st = "multi"}

\* The easy handles that live fetches hold.
Owned == {fetch[i].curl_handle : i \in {j \in FetchIds : Live(j)}} \ {0}

\* The easy handles ever created that curl_easy_cleanup has not freed.
Allocated == {h \in HandleIds : easy[h].st \in {"easy", "multi"}}

\* C38: the handles in the multi handle are those that live fetches hold,
\* and they are all the handles there are; no two live fetches hold the
\* same handle; a handle is given to curl_easy_cleanup only in a step that
\* frees the live fetch holding it, that fetch having no fetch queued behind
\* it, and no live fetch holds it afterwards; and a handle cleaned up stays
\* so.
C38_HandlesConserved ==
    /\ [](/\ Registered = Owned
          /\ Allocated = Owned
          /\ \A i, j \in FetchIds :
                (Live(i) /\ Live(j) /\ fetch[i].curl_handle # 0
                    /\ fetch[i].curl_handle = fetch[j].curl_handle) => i = j)
    /\ [][\A h \in HandleIds :
            /\ (easy[h].st # "cleaned" /\ easy'[h].st = "cleaned") =>
                  /\ \E f \in FetchIds :
                        /\ Live(f) /\ fetch[f].curl_handle = h
                        /\ fetch[f].queue_next = 0
                        /\ fetch'[f].st = "freed"
                  /\ \A g \in FetchIds :
                        fetch'[g].st = "live" => fetch'[g].curl_handle # h
            /\ easy[h].st = "cleaned" => easy'[h].st = "cleaned"]_vars

\* C38 witness: a handle has been through two fetches, the second promoted
\* onto it, and was cleaned up when the second was freed; another fetch is
\* transferring on a handle of its own.
C38_Witness ==
    \E a, n, o \in FetchIds :
        /\ fetch[a].st = "freed" /\ fetch[n].st = "freed"
        /\ fetch[a].queue_next = n /\ fetch[n].queue_next = 0
        /\ fetch[a].curl_handle # 0
        /\ fetch[n].curl_handle = fetch[a].curl_handle
        /\ easy[fetch[a].curl_handle].st = "cleaned"
        /\ Live(o) /\ fetch[o].curl_handle # 0
        /\ easy[fetch[o].curl_handle].st = "multi"

\* C39: a fetch_start for a URL with no host puts the new fetch at the head
\* of fetch_list with an easy handle created for it and added to the multi
\* handle, whatever fetches there are; and a live fetch with no host is in
\* no queue: no fetch is queued behind it and it is behind none.
C39_HostlessNeverQueued ==
    /\ [][\A inp \in HeaderInputs :
            (inp.host = NoHost /\ Start(inp)) =>
               LET f == NewFetch
                   h == fetch'[f].curl_handle
               IN  /\ fetch'[f].st = "live"
                   /\ fetch_list' = f
                   /\ h # 0 /\ easy[h].st = "none"
                   /\ easy'[h].st = "multi" /\ easy'[h].priv = f
                   /\ fetch'[f].queue_prev = 0 /\ fetch'[f].queue_next = 0]_vars
    /\ [](\A i \in FetchIds :
            (Live(i) /\ fetch[i].host = NoHost) =>
               /\ fetch[i].curl_handle # 0
               /\ fetch[i].queue_prev = 0 /\ fetch[i].queue_next = 0)

\* C39 witness: two fetches with no host and a fetch of host "a", started
\* after them, all transfer at once.
C39_Witness ==
    \E i, j, k \in FetchIds :
        /\ i < j /\ j < k
        /\ Live(i) /\ Live(j) /\ Live(k)
        /\ fetch[i].host = NoHost /\ fetch[j].host = NoHost
        /\ fetch[k].host = "a"
        /\ \A f \in {i, j, k} :
              /\ fetch[f].curl_handle # 0
              /\ Transferring(fetch[f].curl_handle)
        /\ fetch[i].curl_handle # fetch[j].curl_handle

====
